---- MODULE Spec2Model ----
(***************************************************************************)
(* Model of the champion audio crawler's resumable pipeline:               *)
(*   champion_crawler/models.py        (checkpoints, session progress)     *)
(*   champion_crawler/state_manager.py (StateManager)                      *)
(*   champion_crawler/scraper.py       (discovery and fetch stages)        *)
(*   champion_crawler/processor.py     (transform stage)                   *)
(*   champion_crawler/concatenator.py  (finalize stage)                    *)
(*   champion_crawler/cli.py           (process_champion, scrape, resume)  *)
(*                                                                         *)
(* The persisted store is the pair (ckpt, progress) together with the raw  *)
(* and processed audio files on disk (raw, wav).  Everything else is the   *)
(* state of the one running crawler process and is lost when it dies.      *)
(* Timestamps (last_checkpoint, last_update, start_time) are not modelled. *)
(***************************************************************************)
EXTENDS Integers, Sequences, FiniteSets, TLC

\* ------------------------------------------------------------------ bounds
\* Largest number of audio files the discovery stage returns for one item
\* when a single item is tracked and the page lists every file once, each
\* with a transcript, and no raw file is damaged.
MaxFiles == 4
\* Largest number of audio files of the single item when the page may list
\* a file twice or without transcript and a raw file may be damaged.
MaxFilesVaried == 2
\* Largest number of audio files per item when two items are tracked.
MaxFilesSession == 1
\* Number of times the environment damages a raw file in one behaviour.
MaxCorrupt == 1
\* Number of direct StateManager calls in one behaviour.
MaxApiOps == 1
\* Number of direct StateManager calls when no crawler runs.
MaxManagerOps == 5
\* Number of sessions created in one behaviour.
MaxSessions == 2
MaxClients == 2

\* ------------------------------------------------------------- vocabulary
\* Display names of the champions, and the identifier derived from each.
Names == {"Ahri", "Kai'Sa"}

\* cli.py:78  champion_name.lower().replace("'", "").replace(" ", "")
ChampionId(name) ==
    CASE name = "Ahri" -> "ahri"
      [] name = "Kai'Sa" -> "kaisa"

Ids == {ChampionId(n) : n \in Names}

None == "none"

\* models.py ChampionStatus values
PENDING == "pending"
SCRAPING == "scraping"
DOWNLOADING == "downloading"
PROCESSING == "processing"
CONCATENATING == "concatenating"
COMPLETED == "completed"
FAILED == "failed"

ChampionStatus ==
    {PENDING, SCRAPING, DOWNLOADING, PROCESSING, CONCATENATING, COMPLETED, FAILED}

\* Optional[str] error texts are records so that texts carrying numbers
\* (the ratio messages) stay comparable with the others.
NoError == [text |-> "null", num |-> 0, den |-> 0]
Error(text) == [text |-> text, num |-> 0, den |-> 0]
RatioError(text, num, den) == [text |-> text, num |-> num, den |-> den]

\* Contents a raw file on disk can have: no file, the bytes the wiki serves,
\* or damaged bytes.
Genuine == "genuine"
Damaged == "damaged"
NoFile == "absent"

\* state_manager.py:274 _calculate_checksum (MD5 of the file's bytes)
CalculateChecksum(content) ==
    CASE content = Genuine -> "md5-genuine"
      [] content = Damaged -> "md5-damaged"

\* scraper.py:332 output_path.stat().st_size
StatSize(content) ==
    CASE content = Genuine -> 2048
      [] content = Damaged -> 1024

NoChecksum == "null"
NoSize == -1

\* models.py:23 AudioFile
AudioFile(filename, transcript) ==
    [filename |-> filename, transcript |-> transcript, downloaded |-> FALSE,
     processed |-> FALSE, file_size |-> NoSize, checksum |-> NoChecksum,
     error |-> NoError]

\* models.py:63 the stats of a fresh checkpoint
ZeroStats ==
    [total_files |-> 0, downloaded_files |-> 0, processed_files |-> 0,
     failed_downloads |-> 0]

\* models.py:43 ChampionCheckpoint, as created by create_champion_checkpoint
NewCheckpoint(id, name) ==
    [champion_id |-> id, champion_name |-> name, stage |-> PENDING,
     audio_files |-> <<>>, stats |-> ZeroStats, error |-> NoError]

\* concatenator.py:17 is_valid_transcript
is_valid_transcript(transcript) ==
    /\ transcript # "null"
    /\ transcript # ""
    /\ transcript # "[]"

\* state_manager.py:240 what get_status_summary returns.  The completion
\* percentage completed / total * 100 is kept as the fraction num / den.
NoSummary ==
    [status |-> "none", session_id |-> 0, total_champions |-> 0, completed |-> 0,
     failed |-> 0, pending |-> 0, in_progress |-> None,
     completion_percentage |-> [num |-> 0, den |-> 1]]

VARIABLES
    ckpt,             \* checkpoints/<id>.json : <<>> (no file) or <<record>>
    progress,         \* progress.json : <<>> (no file) or <<record>>
    raw,              \* output/<id>/raw/<filename> : content of each file
    wav,              \* output/<id>/processed/*.wav : stems present
    roster,           \* display names the wiki and the caller know about
    limit,            \* most files discovery returns in this behaviour
    varied,           \* whether pages and raw files may be irregular
    budget,           \* most direct StateManager calls in this behaviour
    pc,               \* position of the crawler process ("idle": none runs)
    site,             \* call site of process_champion: "inc" or "loop"
    cur,              \* champion_id process_champion works on
    idx,              \* position of the running batch in audio_files
    todo,             \* rest of the pending list of resume_session
    champion_map,     \* ids resume_session resolved from the wiki
    needs_redownload, \* result of verify_downloads for the running batch
    shutdown_requested, \* CrawlerSession.shutdown_requested
    result,           \* last return of process_champion: [champ, ret]
    call,             \* executor invoked by the last step: [exec, champ, file]
    signalled,        \* executor that ran when shutdown was requested
    clock,            \* number of sessions created so far
    corruptions,      \* damage done by the environment so far
    apiops,           \* direct StateManager calls made so far
    again,            \* whether the last such call repeated the one before
    inflight,         \* per client: the mark call it is inside, with what it loaded
    returned          \* summary the last direct StateManager call returned

vars ==
    <<ckpt, progress, raw, wav, roster, limit, varied, budget, pc, site, cur,
      idx, todo, champion_map, needs_redownload, shutdown_requested, result,
      call, signalled, clock, corruptions, apiops, again, inflight, returned>>

stored == <<ckpt, progress, raw, wav>>
\* What no step of the crawler or of a single caller changes: the setting of
\* the behaviour, and the calls other clients of the store are inside.
setting == <<roster, limit, varied, budget>>
world == <<roster, limit, varied, budget, inflight, returned>>
counters == <<clock, corruptions, apiops, again>>
locals ==
    <<pc, site, cur, idx, todo, champion_map, needs_redownload,
      shutdown_requested, result, signalled>>

FileNames == 1 .. MaxFiles

\* The processes that call the StateManager of one state directory at the
\* same time.
Clients == 1 .. MaxClients

NoCall == [exec |-> "none", champ |-> None, file |-> 0]
Call(exec, champ, file) == [exec |-> exec, champ |-> champ, file |-> file]
NoResult == [champ |-> None, ret |-> "none"]
NoSignal == [champ |-> None, stage |-> "none"]

\* ------------------------------------------------------- session progress
\* models.py:103 ProgressState.  champions is an insertion-ordered dict, kept
\* as a sequence of <<id, status>>; failed_champions is a list without
\* repetitions (models.py:138), kept as a sequence.
NewProgress(session) ==
    [session_id |-> session, total_champions |-> 0, completed_champions |-> 0,
     failed_champions |-> <<>>, in_progress_champion |-> None,
     champions |-> <<>>]

InDict(champions, id) == \E i \in DOMAIN champions : champions[i][1] = id

StatusOf(champions, id) ==
    IF InDict(champions, id)
    THEN champions[CHOOSE i \in DOMAIN champions : champions[i][1] = id][2]
    ELSE "untracked"

\* self.champions[champion_id] = status.value
DictSet(champions, id, status) ==
    IF InDict(champions, id)
    THEN [i \in DOMAIN champions |->
            IF champions[i][1] = id THEN <<id, status>> ELSE champions[i]]
    ELSE Append(champions, <<id, status>>)

InList(list, x) == \E i \in DOMAIN list : list[i] = x

\* models.py:128 ProgressState.update_champion_status
update_champion_status(p, id, status) ==
    LET q == [p EXCEPT !.champions = DictSet(p.champions, id, status)] IN
    IF status = COMPLETED
    THEN [q EXCEPT !.completed_champions = @ + 1,
                   !.in_progress_champion = IF @ = id THEN None ELSE @]
    ELSE IF status = FAILED
    THEN [q EXCEPT !.failed_champions =
                       IF InList(@, id) THEN @ ELSE Append(@, id),
                   !.in_progress_champion = IF @ = id THEN None ELSE @]
    ELSE IF status \in {SCRAPING, DOWNLOADING, PROCESSING, CONCATENATING}
    THEN [q EXCEPT !.in_progress_champion = id]
    ELSE q

\* models.py:121 ProgressState.has_incomplete_session
has_incomplete_session(p) ==
    \/ p.in_progress_champion # None
    \/ \E i \in DOMAIN p.champions : p.champions[i][2] = PENDING

\* ------------------------------------------------------------ the store
\* A store value st is [ckpt, progress, kill, dead]; the operators below are
\* the StateManager methods as functions from store to store, so that one
\* step of the process can apply several of them in the order the code does.
\* kill says whether the process is killed inside the step: Torn kills it
\* in the first save of the step, between the two file writes of
\* save_checkpoint, and Cut kills it inside the first of the two, the
\* write_text of the checkpoint file; from then on it is dead and writes
\* nothing more.  (A kill after a whole save is the step followed by Kill;
\* the write of an audio file and the save that marks it are one step,
\* which no kill divides.)
Uncut == "uncut"
Torn == "torn"
Cut == "cut"
Kills == {Uncut, Torn, Cut}

\* models.py:89 write_text opens the checkpoint file for writing, which
\* empties it, and then writes the text: a process killed in between leaves
\* a file that is empty or ends in the middle of the JSON text.  Truncated
\* stands for every such file; it holds nothing that can be read.
Truncated ==
    [champion_id |-> None, champion_name |-> None, stage |-> "truncated",
     audio_files |-> <<>>, stats |-> ZeroStats, error |-> NoError]

\* models.py:98 json.loads raises on a truncated file, and nothing in the
\* program catches it: the process that loads the checkpoint ends there.
Raise(st) == [st EXCEPT !.dead = TRUE]
Store(kill) == [ckpt |-> ckpt, progress |-> progress, kill |-> kill, dead |-> FALSE]

Dead(st) == st.dead

\* state_manager.py:64 get_champion_checkpoint / models.py:91 load
get_champion_checkpoint(st, id) == st.ckpt[id]

\* state_manager.py:54 save_checkpoint: the checkpoint file is overwritten
\* (models.py:86), then the session progress is updated and saved
\* (state_manager.py:48): two writes, and a kill can fall between them.
save_checkpoint(st, id, checkpoint) ==
    IF Dead(st) THEN st
    ELSE IF st.kill = Cut
    THEN [st EXCEPT !.ckpt[id] = <<Truncated>>, !.dead = TRUE]
    ELSE [ckpt |-> [st.ckpt EXCEPT ![id] = <<checkpoint>>],
          progress |->
             IF st.progress = <<>> \/ st.kill = Torn
             THEN st.progress
             ELSE <<update_champion_status(st.progress[1], id, checkpoint.stage)>>,
          kill |-> st.kill,
          dead |-> st.kill = Torn]

\* state_manager.py:68 create_champion_checkpoint
create_champion_checkpoint(st, id, name) ==
    save_checkpoint(st, id, NewCheckpoint(id, name))

\* Index of the first audio file called filename, 0 when there is none
\* (the for ... break loops of the mark_file_* methods).
FirstNamed(files, filename) ==
    IF \E i \in DOMAIN files : files[i].filename = filename
    THEN CHOOSE i \in DOMAIN files :
            /\ files[i].filename = filename
            /\ \A j \in DOMAIN files : files[j].filename = filename => i <= j
    ELSE 0

\* state_manager.py:100, 119, 138 the recounts of the mark_file_* methods
CountDownloaded(files) == Cardinality({i \in DOMAIN files : files[i].downloaded})
CountProcessed(files) == Cardinality({i \in DOMAIN files : files[i].processed})
CountFailed(files) == Cardinality({i \in DOMAIN files : files[i].error # NoError})

\* mark_file_downloaded setting the flag without checksum and size.
mark_file_downloaded_flag_only(st, id, filename, content, file_size) ==
    LET c == get_champion_checkpoint(st, id) IN
    IF c = <<>> THEN st
    ELSE IF c = <<Truncated>> THEN Raise(st)
    ELSE
      LET k == FirstNamed(c[1].audio_files, filename)
          files == IF k = 0 THEN c[1].audio_files
                   ELSE [c[1].audio_files EXCEPT ![k].downloaded = TRUE]
      IN save_checkpoint(st, id,
            [c[1] EXCEPT !.audio_files = files,
                         !.stats.downloaded_files = CountDownloaded(files)])

\* state_manager.py:80 mark_file_downloaded (content: the bytes at file_path)
mark_file_downloaded(st, id, filename, content, file_size) ==
    LET c == get_champion_checkpoint(st, id) IN
    IF c = <<>> THEN st
    ELSE IF c = <<Truncated>> THEN Raise(st)
    ELSE
      LET k == FirstNamed(c[1].audio_files, filename)
          files == IF k = 0 THEN c[1].audio_files
                   ELSE [c[1].audio_files EXCEPT
                           ![k].downloaded = TRUE,
                           ![k].checksum = CalculateChecksum(content),
                           ![k].file_size = file_size]
      IN save_checkpoint(st, id,
            [c[1] EXCEPT !.audio_files = files,
                         !.stats.downloaded_files = CountDownloaded(files)])

\* mark_file_processed marking every entry of the name, fetched or not.
mark_file_processed_every_entry(st, id, filename) ==
    LET c == get_champion_checkpoint(st, id) IN
    IF c = <<>> THEN st
    ELSE IF c = <<Truncated>> THEN Raise(st)
    ELSE
      LET files == [i \in DOMAIN c[1].audio_files |->
                      IF c[1].audio_files[i].filename = filename
                      THEN [c[1].audio_files[i] EXCEPT !.processed = TRUE]
                      ELSE c[1].audio_files[i]]
      IN save_checkpoint(st, id,
            [c[1] EXCEPT !.audio_files = files,
                         !.stats.processed_files = CountProcessed(files)])

\* state_manager.py:106 mark_file_processed
mark_file_processed(st, id, filename) ==
    LET c == get_champion_checkpoint(st, id) IN
    IF c = <<>> THEN st
    ELSE IF c = <<Truncated>> THEN Raise(st)
    ELSE
      LET k == FirstNamed(c[1].audio_files, filename)
          files == IF k = 0 THEN c[1].audio_files
                   ELSE [c[1].audio_files EXCEPT ![k].processed = TRUE]
      IN save_checkpoint(st, id,
            [c[1] EXCEPT !.audio_files = files,
                         !.stats.processed_files = CountProcessed(files)])

\* mark_file_failed adding one to the count instead of recounting.
mark_file_failed_adding(st, id, filename, error) ==
    LET c == get_champion_checkpoint(st, id) IN
    IF c = <<>> THEN st
    ELSE IF c = <<Truncated>> THEN Raise(st)
    ELSE
      LET k == FirstNamed(c[1].audio_files, filename)
          files == IF k = 0 THEN c[1].audio_files
                   ELSE [c[1].audio_files EXCEPT ![k].error = error]
      IN save_checkpoint(st, id,
            [c[1] EXCEPT !.audio_files = files,
                         !.stats.failed_downloads = @ + 1])

\* mark_file_failed taking the downloaded flag back as well.
mark_file_failed_clearing(st, id, filename, error) ==
    LET c == get_champion_checkpoint(st, id) IN
    IF c = <<>> THEN st
    ELSE IF c = <<Truncated>> THEN Raise(st)
    ELSE
      LET k == FirstNamed(c[1].audio_files, filename)
          files == IF k = 0 THEN c[1].audio_files
                   ELSE [c[1].audio_files EXCEPT ![k].error = error,
                                                 ![k].downloaded = FALSE]
      IN save_checkpoint(st, id,
            [c[1] EXCEPT !.audio_files = files,
                         !.stats.failed_downloads = CountFailed(files)])

\* state_manager.py:125 mark_file_failed
mark_file_failed(st, id, filename, error) ==
    LET c == get_champion_checkpoint(st, id) IN
    IF c = <<>> THEN st
    ELSE IF c = <<Truncated>> THEN Raise(st)
    ELSE
      LET k == FirstNamed(c[1].audio_files, filename)
          files == IF k = 0 THEN c[1].audio_files
                   ELSE [c[1].audio_files EXCEPT ![k].error = error]
      IN save_checkpoint(st, id,
            [c[1] EXCEPT !.audio_files = files,
                         !.stats.failed_downloads = CountFailed(files)])

\* mark_champion_completed that saves nothing.
mark_champion_completed_unsaved(st, id) ==
    LET c == get_champion_checkpoint(st, id) IN
    IF c = <<>> THEN st
    ELSE IF c = <<Truncated>> THEN Raise(st)
    ELSE st

\* state_manager.py:144 mark_champion_completed
mark_champion_completed(st, id) ==
    LET c == get_champion_checkpoint(st, id) IN
    IF c = <<>> THEN st
    ELSE IF c = <<Truncated>> THEN Raise(st)
    ELSE save_checkpoint(st, id, [c[1] EXCEPT !.stage = COMPLETED])

\* mark_champion_failed storing the error text and leaving the stage.
mark_champion_failed_error_only(st, id, error) ==
    LET c == get_champion_checkpoint(st, id) IN
    IF c = <<>> THEN st
    ELSE IF c = <<Truncated>> THEN Raise(st)
    ELSE save_checkpoint(st, id, [c[1] EXCEPT !.error = error])

\* mark_champion_failed without the error text.
mark_champion_failed_stage_only(st, id, error) ==
    LET c == get_champion_checkpoint(st, id) IN
    IF c = <<>> THEN st
    ELSE IF c = <<Truncated>> THEN Raise(st)
    ELSE save_checkpoint(st, id, [c[1] EXCEPT !.stage = FAILED])

\* state_manager.py:151 mark_champion_failed
mark_champion_failed(st, id, error) ==
    LET c == get_champion_checkpoint(st, id) IN
    IF c = <<>> THEN st
    ELSE IF c = <<Truncated>> THEN Raise(st)
    ELSE save_checkpoint(st, id, [c[1] EXCEPT !.stage = FAILED, !.error = error])

\* state_manager.py:159 update_champion_stage
update_champion_stage(st, id, stage) ==
    LET c == get_champion_checkpoint(st, id) IN
    IF c = <<>> THEN st
    ELSE IF c = <<Truncated>> THEN Raise(st)
    ELSE save_checkpoint(st, id, [c[1] EXCEPT !.stage = stage])

\* get_pending_champions returning the pending items last first.
get_pending_champions_reversed(p) ==
    LET pend == SelectSeq(p.champions, LAMBDA e : e[2] = PENDING)
    IN [i \in DOMAIN pend |-> pend[Len(pend) + 1 - i][1]]

\* state_manager.py:166 get_pending_champions
get_pending_champions(p) ==
    LET pend == SelectSeq(p.champions, LAMBDA e : e[2] = PENDING)
    IN [i \in DOMAIN pend |-> pend[i][1]]

\* state_manager.py:184 verify_file_integrity
verify_file_integrity(content, expected_checksum) ==
    /\ content # NoFile
    /\ CalculateChecksum(content) = expected_checksum

\* state_manager.py:192 verify_downloads: names of downloaded files whose
\* raw file is missing or fails its checksum.
verify_downloads(st, id, disk) ==
    LET c == get_champion_checkpoint(st, id) IN
    IF c = <<>> THEN {}
    ELSE {c[1].audio_files[i].filename : i \in
            {j \in DOMAIN c[1].audio_files :
                LET af == c[1].audio_files[j] IN
                /\ af.downloaded
                /\ \/ disk[id][af.filename] = NoFile
                   \/ /\ af.checksum # NoChecksum
                      /\ ~verify_file_integrity(disk[id][af.filename], af.checksum)}}

\* models.py:114 ProgressState.to_dict: asdict, the fields by name; this is
\* what _save_progress writes (state_manager.py:52).
ProgressState_to_dict(p) ==
    [session_id |-> p.session_id,
     total_champions |-> p.total_champions,
     completed_champions |-> p.completed_champions,
     failed_champions |-> p.failed_champions,
     in_progress_champion |-> p.in_progress_champion,
     champions |-> p.champions]

\* models.py:117 ProgressState.from_dict: cls(**data), with no conversion
ProgressState_from_dict(data) ==
    [session_id |-> data.session_id,
     total_champions |-> data.total_champions,
     completed_champions |-> data.completed_champions,
     failed_champions |-> data.failed_champions,
     in_progress_champion |-> data.in_progress_champion,
     champions |-> data.champions]

\* load_progress starting a new session whatever is on disk.
load_progress_afresh(p, session) ==
    <<ProgressState_to_dict(NewProgress(session))>>

\* get_status_summary reporting the counter completed_champions.
get_status_summary_by_counter(p) ==
    IF p = <<>>
    THEN [NoSummary EXCEPT !.status = "No active session"]
    ELSE [status |-> "active",
          session_id |-> p[1].session_id,
          total_champions |-> p[1].total_champions,
          completed |-> p[1].completed_champions,
          failed |-> Len(p[1].failed_champions),
          pending |-> Cardinality({i \in DOMAIN p[1].champions :
                                     p[1].champions[i][2] = PENDING}),
          in_progress |-> p[1].in_progress_champion,
          completion_percentage |->
             IF p[1].total_champions > 0
             THEN [num |-> p[1].completed_champions * 100,
                   den |-> p[1].total_champions]
             ELSE [num |-> 0, den |-> 1]]

\* state_manager.py:240 get_status_summary, of the session p the manager
\* holds (<<>>: none)
get_status_summary(p) ==
    IF p = <<>>
    THEN [NoSummary EXCEPT !.status = "No active session"]
    ELSE LET completed == Cardinality({i \in DOMAIN p[1].champions :
                                         p[1].champions[i][2] = COMPLETED})
         IN
         [status |-> "active",
          session_id |-> p[1].session_id,
          total_champions |-> p[1].total_champions,
          completed |-> completed,
          failed |-> Len(p[1].failed_champions),
          pending |-> Cardinality({i \in DOMAIN p[1].champions :
                                     p[1].champions[i][2] = PENDING}),
          in_progress |-> p[1].in_progress_champion,
          completion_percentage |->
             IF p[1].total_champions > 0
             THEN [num |-> completed * 100, den |-> p[1].total_champions]
             ELSE [num |-> 0, den |-> 1]]

\* state_manager.py:31 load_progress: the persisted session, or a new one
\* that is saved at once.
load_progress(p, session) ==
    IF p = <<>>
    THEN <<ProgressState_to_dict(NewProgress(session))>>
    ELSE <<ProgressState_from_dict(p[1])>>

\* state_manager.py:218 add_champion
add_champion(p, id) ==
    IF InDict(p.champions, id) THEN p
    ELSE [p EXCEPT !.champions = Append(@, <<id, PENDING>>),
                   !.total_champions = @ + 1]


\* ------------------------------------------------------------- discovery
\* What _extract_original_audio (scraper.py:134) can return: n files named
\* 1..n, optionally with the last one carrying the name of the first (the
\* page lists one source twice), and with transcripts taken from the <i> tags.
TranscriptPatterns == {"quoted", "first-empty"}

TranscriptAt(pattern, i) ==
    CASE pattern = "quoted" -> "quote"
      [] pattern = "first-empty" -> IF i = 1 THEN "[]" ELSE "quote"

Discovered(n, dup, pattern) ==
    [i \in 1 .. n |->
        AudioFile(IF dup /\ i = n /\ n >= 2 THEN 1 ELSE i, TranscriptAt(pattern, i))]

\* The display name process_champion is called with for an id.
NameOf(id) == CHOOSE n \in Names : ChampionId(n) = id

\* --------------------------------------------------------- process_champion
\* The outcome of a piece of process_champion: the store it leaves, and either
\* the executor it is now inside (ret = "running") or its return value.
Returned(st, ret) == [st |-> st, pc |-> "return", needs |-> {}, ret |-> ret]
Running(st, where, needs) == [st |-> st, pc |-> where, needs |-> needs, ret |-> "running"]

\* cli.py:97-125 steps 2 to 4 of process_champion, entered at step k: each
\* step reloads the checkpoint and runs its executor when the stage is the
\* step's own.  Starting the executor is part of the step: download_all_audio
\* begins with verify_downloads (scraper.py:362), process_champion_audio and
\* concatenate_champion begin by saving their own stage (processor.py:217,
\* concatenator.py:331).
Continue(st, c, k) ==
    LET ck == get_champion_checkpoint(st, c) IN
    IF k <= 2 /\ ck # <<>> /\ ck[1].stage = DOWNLOADING
    THEN Running(st, "downloading", verify_downloads(st, c, raw))
    ELSE IF k <= 3 /\ ck # <<>> /\ ck[1].stage = PROCESSING
    THEN Running(update_champion_stage(st, c, PROCESSING), "processing", {})
    ELSE IF k <= 4 /\ ck # <<>> /\ ck[1].stage = CONCATENATING
    THEN Running(update_champion_stage(st, c, CONCATENATING), "concatenating", {})
    ELSE Returned(st, "True")

\* process_champion going on with the next step although shutdown was requested.
AfterStage_ignoring_shutdown(st, c, k, ok) ==
    IF ~ok
    THEN Returned(st, "False")
    ELSE Continue(st, c, k + 1)

\* cli.py:94,101,113 after the executor of step k returned ok: stop on failure
\* or when shutdown was requested, otherwise go on with the next step.
AfterStage(st, c, k, ok) ==
    IF ~ok \/ shutdown_requested
    THEN Returned(st, "False")
    ELSE Continue(st, c, k + 1)

\* process_champion entered without a look at the shutdown flag.
Enter_unchecked(st, c) ==
    LET ck == get_champion_checkpoint(st, c) IN
    IF ck = <<Truncated>> THEN Returned(Raise(st), "False")
    ELSE IF ck # <<>> /\ ck[1].stage = COMPLETED THEN Returned(st, "True")
    ELSE IF ck = <<>> \/ ck[1].stage = PENDING THEN Running(st, "scrape", {})
    ELSE Continue(st, c, 2)

\* process_champion starting over on a completed item.
Enter_rescraping(st, c) ==
    LET ck == get_champion_checkpoint(st, c) IN
    IF shutdown_requested THEN Returned(st, "False")
    ELSE IF ck = <<Truncated>> THEN Returned(Raise(st), "False")
    ELSE IF ck = <<>> \/ ck[1].stage \in {PENDING, COMPLETED} THEN Running(st, "scrape", {})
    ELSE Continue(st, c, 2)

\* cli.py:75-95 entry of process_champion
Enter(st, c) ==
    LET ck == get_champion_checkpoint(st, c) IN
    IF shutdown_requested THEN Returned(st, "False")
    ELSE IF ck = <<Truncated>> THEN Returned(Raise(st), "False")
    ELSE IF ck # <<>> /\ ck[1].stage = COMPLETED THEN Returned(st, "True")
    ELSE IF ck = <<>> \/ ck[1].stage = PENDING THEN Running(st, "scrape", {})
    ELSE Continue(st, c, 2)

\* The process is gone: by return, by kill or by an uncaught exception.
ProcessGone ==
    /\ pc' = "idle"
    /\ site' = "none"
    /\ cur' = None
    /\ idx' = 0
    /\ todo' = <<>>
    /\ champion_map' = {}
    /\ needs_redownload' = {}
    /\ shutdown_requested' = FALSE
    /\ result' = NoResult
    /\ signalled' = NoSignal

Alive == pc # "idle"

\* The process after outcome o of process_champion(c), called from site s
\* with td the pending items still to do.
Finish(o, c, s, td) ==
    /\ ckpt' = o.st.ckpt
    /\ progress' = o.st.progress
    /\ IF Dead(o.st)
       THEN ProcessGone
       ELSE /\ site' = s
            /\ todo' = td
            /\ UNCHANGED <<champion_map, shutdown_requested, signalled>>
            /\ IF o.ret = "running"
               THEN /\ pc' = o.pc
                    /\ cur' = c
                    /\ idx' = IF o.pc \in {"downloading", "processing"} THEN 1 ELSE 0
                    /\ needs_redownload' = o.needs
                    /\ result' = NoResult
               ELSE /\ pc' = IF s = "inc" THEN "pending_list" ELSE "loop"
                    /\ cur' = None
                    /\ idx' = 0
                    /\ needs_redownload' = {}
                    /\ result' = [champ |-> c, ret |-> o.ret]

\* The process after a step inside an executor that left store st.
Step(st, where, i) ==
    /\ ckpt' = st.ckpt
    /\ progress' = st.progress
    /\ IF Dead(st)
       THEN ProcessGone
       ELSE /\ pc' = where
            /\ idx' = i
            /\ UNCHANGED <<site, cur, todo, champion_map, needs_redownload,
                           shutdown_requested, result, signalled>>

\* ------------------------------------------------------------------ Init
\* A fresh StateManager on an empty state directory, and no process running.
NoProcess ==
    /\ pc = "idle"
    /\ site = "none"
    /\ cur = None
    /\ idx = 0
    /\ todo = <<>>
    /\ champion_map = {}
    /\ needs_redownload = {}
    /\ shutdown_requested = FALSE
    /\ result = NoResult
    /\ signalled = NoSignal
    /\ call = NoCall
    /\ inflight = [k \in Clients |-> <<>>]
    /\ returned = NoSummary

EmptyStore ==
    /\ ckpt = [i \in Ids |-> <<>>]
    /\ progress = <<>>
    /\ raw = [i \in Ids |-> [f \in FileNames |-> NoFile]]
    /\ wav = [i \in Ids |-> {}]
    /\ clock = 0
    /\ corruptions = 0
    /\ apiops = 0
    /\ again = FALSE

\* The behaviour is about one item with up to MaxFiles regular files, one
\* item with up to MaxFilesVaried files, or two items with up to
\* MaxFilesSession regular files each.
Init ==
    /\ EmptyStore
    /\ NoProcess
    /\ budget = 0
    /\ \/ roster = {"Ahri"} /\ limit = MaxFiles /\ varied = FALSE
       \/ roster = {"Ahri"} /\ limit = MaxFilesVaried /\ varied = TRUE
       \/ roster = Names /\ limit = MaxFilesSession /\ varied = FALSE

\* ------------------------------------------------------------- commands
\* A caller registers a champion: state_manager.py:218 add_champion, which
\* loads (or creates) the session first.
AddChampion(n) ==
    /\ pc = "idle"
    /\ n \in roster
    /\ LET p == load_progress(progress, clock + 1) IN
       /\ ~InDict(p[1].champions, ChampionId(n))
       /\ progress' = <<add_champion(p[1], ChampionId(n))>>
    /\ clock' = IF progress = <<>> THEN clock + 1 ELSE clock
    /\ call' = NoCall
    /\ UNCHANGED <<ckpt, raw, wav, world, locals, corruptions, apiops, again>>

\* cli.py:352-375 resume_session up to the handling of the incomplete item:
\* a new CrawlerSession, the session progress, and the champion list of the
\* wiki (empty when the request fails, scraper.py:45).
StartResume(p) ==
    /\ progress' = p
    /\ pc' = "resume_inc"
    /\ shutdown_requested' = FALSE
    /\ \E fetched \in BOOLEAN :
          champion_map' = IF fetched THEN {ChampionId(n) : n \in roster} ELSE {}
    /\ UNCHANGED <<site, cur, idx, todo, needs_redownload, result, signalled>>

\* cli.py:324-349 the resume command
ResumeCmd ==
    /\ pc = "idle"
    /\ progress # <<>> \/ clock < MaxSessions
    /\ LET p == load_progress(progress, clock + 1) IN
       IF has_incomplete_session(p[1])
       THEN StartResume(p)
       ELSE /\ progress' = p
            /\ UNCHANGED locals
    /\ clock' = IF progress = <<>> THEN clock + 1 ELSE clock
    /\ call' = NoCall
    /\ UNCHANGED <<ckpt, raw, wav, world, corruptions, apiops, again>>

\* cli.py:177-288 the scrape command without --reset.  With an incomplete
\* session and the prompt confirmed it is resume_session.  Otherwise it gets
\* as far as cli.py:249, state.add_champion(champ_id), which raises TypeError
\* (add_champion takes champion_id and champion_name), or returns at
\* cli.py:244 when there is no champion to process: the session record that
\* load_progress created is all it leaves.
ScrapeCmd ==
    /\ pc = "idle"
    /\ progress # <<>> \/ clock < MaxSessions
    /\ LET p == load_progress(progress, clock + 1) IN
       \E confirm \in BOOLEAN :
          IF has_incomplete_session(p[1]) /\ confirm
          THEN StartResume(p)
          ELSE /\ progress' = p
               /\ UNCHANGED locals
    /\ clock' = IF progress = <<>> THEN clock + 1 ELSE clock
    /\ call' = NoCall
    /\ UNCHANGED <<ckpt, raw, wav, world, corruptions, apiops, again>>

\* cli.py:377-411 the item that was in progress is processed first, when its
\* name is known from the wiki or from its checkpoint.  Its checkpoint is
\* loaded before anything else (cli.py:381).
ResumeIncomplete ==
    /\ pc = "resume_inc"
    /\ LET inc == progress[1].in_progress_champion IN
       IF inc # None /\ ckpt[inc] = <<Truncated>>
       THEN /\ ProcessGone
            /\ call' = NoCall
            /\ UNCHANGED <<ckpt, progress>>
       ELSE IF inc # None /\ (inc \in champion_map \/ ckpt[inc] # <<>>)
       THEN /\ \E kill \in Kills : Finish(Enter(Store(kill), inc), inc, "inc", todo)
            /\ call' = Call("process_champion", inc, 0)
       ELSE /\ pc' = "pending_list"
            /\ call' = NoCall
            /\ UNCHANGED <<ckpt, progress, site, cur, idx, todo, champion_map,
                           needs_redownload, shutdown_requested, result, signalled>>
    /\ UNCHANGED <<raw, wav, world, counters>>

\* cli.py:414 pending = state.get_pending_champions()
PendingList ==
    /\ pc = "pending_list"
    /\ todo' = get_pending_champions(progress[1])
    /\ pc' = "loop"
    /\ call' = NoCall
    /\ UNCHANGED <<stored, world, site, cur, idx, champion_map, needs_redownload,
                   shutdown_requested, result, signalled, counters>>

\* cli.py:421-448 one round of the loop over the pending items; after the
\* last one (or on shutdown) the summary is printed and the process returns.
LoopNext ==
    /\ pc = "loop"
    /\ UNCHANGED <<raw, wav, world, counters>>
    /\ IF todo = <<>> \/ shutdown_requested
       THEN /\ ProcessGone
            /\ call' = NoCall
            /\ UNCHANGED <<ckpt, progress>>
       ELSE IF Head(todo) \in champion_map
       THEN /\ \E kill \in Kills :
                  Finish(Enter(Store(kill), Head(todo)), Head(todo), "loop", Tail(todo))
            /\ call' = Call("process_champion", Head(todo), 0)
       ELSE /\ todo' = Tail(todo)
            /\ call' = NoCall
            /\ UNCHANGED <<ckpt, progress, pc, site, cur, idx, champion_map,
                           needs_redownload, shutdown_requested, result, signalled>>

\* ------------------------------------------------------------- discovery
\* scraper.py:93-95 scrape_champion_audio creates the checkpoint of an item
\* it sees for the first time.
ScrapeCreateCheckpoint ==
    /\ pc = "scrape"
    /\ ckpt[cur] = <<>>
    /\ \E kill \in Kills :
          Step(create_champion_checkpoint(Store(kill), cur, NameOf(cur)), "scrape", 0)
    /\ call' = NoCall
    /\ UNCHANGED <<raw, wav, world, counters>>

\* scraper.py:97-99 the stage becomes scraping
ScrapeSetStage ==
    /\ pc = "scrape"
    /\ ckpt[cur] # <<>>
    /\ \E kill \in Kills :
          Step(save_checkpoint(Store(kill), cur, [ckpt[cur][1] EXCEPT !.stage = SCRAPING]),
               "scraping", 0)
    /\ call' = NoCall
    /\ UNCHANGED <<raw, wav, world, counters>>

\* Discovery storing the files without counting them.
StoreDiscovered_uncounted(checkpoint, audio_files) ==
    [checkpoint EXCEPT !.audio_files = audio_files,
                       !.stage = DOWNLOADING]

\* Discovery handing the item straight to the transform stage.
StoreDiscovered_skipping(checkpoint, audio_files) ==
    [checkpoint EXCEPT !.audio_files = audio_files,
                       !.stats.total_files = Len(audio_files),
                       !.stage = PROCESSING]

\* scraper.py:121-125 the discovered files are stored and the stage advances
StoreDiscovered(checkpoint, audio_files) ==
    [checkpoint EXCEPT !.audio_files = audio_files,
                       !.stats.total_files = Len(audio_files),
                       !.stage = DOWNLOADING]

\* scraper.py:101-132 the audio page is fetched and searched; back in
\* process_champion (cli.py:93-95) the next step follows.  The checkpoint
\* object scrape_champion_audio holds is the record it saved last.
ScrapePage ==
    /\ pc = "scraping"
    /\ ckpt[cur] # <<>>
    /\ call' = Call("discovery", cur, 0)
    /\ \E kill \in Kills :
       \/ \E text \in {"Failed to fetch audio page",
                       "No Original skin audio files found"} :
             Finish(AfterStage(mark_champion_failed(Store(kill), cur, Error(text)),
                               cur, 1, FALSE), cur, site, todo)
       \/ \E n \in 1 .. limit, dup \in BOOLEAN, pattern \in TranscriptPatterns :
             /\ dup => n >= 2 /\ varied
             /\ pattern # "quoted" => varied
             /\ Finish(AfterStage(
                    save_checkpoint(Store(kill), cur,
                        StoreDiscovered(ckpt[cur][1], Discovered(n, dup, pattern))),
                    cur, 1, TRUE), cur, site, todo)
    /\ UNCHANGED <<raw, wav, world, counters>>

\* ----------------------------------------------------------------- fetch
\* A fetch loop that trusts the downloaded flag alone.
SkipDownload_by_flag(af, needs) == af.downloaded

\* scraper.py:378-381 a file is skipped when it is downloaded and intact
SkipDownload(af, needs) == af.downloaded /\ af.filename \notin needs

\* scraper.py:313-317 download_audio_file returns at once for a file that is
\* downloaded, present and verified
AlreadyIntact(af, content) ==
    /\ af.downloaded
    /\ content # NoFile
    /\ af.checksum # NoChecksum
    /\ verify_file_integrity(content, af.checksum)

\* A fetch batch that gives up at the first request that fails.
DownloadStep_aborting ==
    /\ pc = "downloading"
    /\ ckpt[cur] # <<>>
    /\ idx <= Len(ckpt[cur][1].audio_files)
    /\ LET af == ckpt[cur][1].audio_files[idx] IN
       IF SkipDownload(af, needs_redownload)
       THEN /\ call' = NoCall
            /\ Step(Store(Uncut), pc, idx + 1)
            /\ UNCHANGED raw
       ELSE IF AlreadyIntact(af, raw[cur][af.filename])
       THEN /\ call' = Call("verify", cur, idx)
            /\ Step(Store(Uncut), pc, idx + 1)
            /\ UNCHANGED raw
       ELSE /\ call' = Call("fetch", cur, idx)
            /\ \E kill \in Kills :
               \/ /\ raw' = [raw EXCEPT ![cur][af.filename] = Genuine]
                  /\ Step(mark_file_downloaded(Store(kill), cur, af.filename,
                              Genuine, StatSize(Genuine)), pc, idx + 1)
               \/ /\ Step(mark_file_failed(Store(kill), cur, af.filename,
                              Error("Download failed")), pc,
                          Len(ckpt[cur][1].audio_files) + 1)
                  /\ UNCHANGED raw
    /\ UNCHANGED <<wav, world, counters>>

\* scraper.py:376-391 one round of the loop of download_all_audio.  The loop
\* walks the audio_files of the checkpoint loaded at cli.py:98; entry idx of
\* it equals entry idx of the stored record, because earlier rounds only
\* change the first entry of a name, which they have already passed.
DownloadStep ==
    /\ pc = "downloading"
    /\ ckpt[cur] # <<>>
    /\ idx <= Len(ckpt[cur][1].audio_files)
    /\ LET af == ckpt[cur][1].audio_files[idx] IN
       IF SkipDownload(af, needs_redownload)
       THEN /\ call' = NoCall
            /\ Step(Store(Uncut), pc, idx + 1)
            /\ UNCHANGED raw
       ELSE IF AlreadyIntact(af, raw[cur][af.filename])
       THEN /\ call' = Call("verify", cur, idx)
            /\ Step(Store(Uncut), pc, idx + 1)
            /\ UNCHANGED raw
       ELSE /\ call' = Call("fetch", cur, idx)
            /\ \E kill \in Kills :
               \/ \* scraper.py:319-337 the file is written, then marked
                  /\ raw' = [raw EXCEPT ![cur][af.filename] = Genuine]
                  /\ Step(mark_file_downloaded(Store(kill), cur, af.filename,
                              Genuine, StatSize(Genuine)), pc, idx + 1)
               \/ \* scraper.py:339-343 the request failed
                  /\ Step(mark_file_failed(Store(kill), cur, af.filename,
                              Error("Download failed")), pc, idx + 1)
                  /\ UNCHANGED raw
    /\ UNCHANGED <<wav, world, counters>>

\* A gate that also fails an item at exactly one half.
BelowGate_inclusive(count, total) == 2 * count <= total

\* scraper.py:406, processor.py:265  success_rate < 0.5, with
\* success_rate = count / total
BelowGate(count, total) == 2 * count < total

\* scraper.py:407 the error text of the fetch gate
DownloadGateError(checkpoint) ==
    RatioError("files downloaded", checkpoint.stats.downloaded_files,
               checkpoint.stats.total_files)

\* scraper.py:396 the error text for a checkpoint that is gone
ReloadError == Error("Failed to reload checkpoint after downloads")

\* scraper.py:393-418 the end of download_all_audio, followed by
\* cli.py:101-102.  The checkpoint is loaded again; when its file is gone
\* the item is to be marked failed (scraper.py:394-399).  total_files = 0
\* makes the division raise ZeroDivisionError, which nothing catches.
DownloadGate ==
    /\ pc = "downloading"
    /\ IF ckpt[cur] = <<>> THEN TRUE ELSE idx > Len(ckpt[cur][1].audio_files)
    /\ call' = NoCall
    /\ UNCHANGED <<raw, wav, world, counters>>
    /\ IF ckpt[cur] = <<>>
       THEN Finish(AfterStage(mark_champion_failed(Store(Uncut), cur, ReloadError),
                              cur, 2, FALSE), cur, site, todo)
       ELSE
       LET reloaded == ckpt[cur][1]
           downloaded == reloaded.stats.downloaded_files
           total == reloaded.stats.total_files
       IN
       IF total = 0
       THEN /\ ProcessGone
            /\ UNCHANGED <<ckpt, progress>>
       ELSE \E kill \in Kills :
            IF BelowGate(downloaded, total)
            THEN Finish(AfterStage(
                     mark_champion_failed(Store(kill), cur, DownloadGateError(reloaded)),
                     cur, 2, FALSE), cur, site, todo)
            ELSE Finish(AfterStage(
                     save_checkpoint(Store(kill), cur,
                         [reloaded EXCEPT !.stage = PROCESSING]),
                     cur, 2, TRUE), cur, site, todo)

\* ------------------------------------------------------------- transform
\* A transform loop that takes files that were never downloaded.
SkipProcess_processed_only(af) == af.processed

\* processor.py:232-240 a file is passed over when it is processed already
\* or was never downloaded
SkipProcess(af) == af.processed \/ ~af.downloaded

\* processor.py:231-254 one round of the loop of process_champion_audio;
\* process_audio_file cannot succeed without its input file, and writes the
\* WAV file before the entry is marked.
ProcessStep ==
    /\ pc = "processing"
    /\ ckpt[cur] # <<>>
    /\ idx <= Len(ckpt[cur][1].audio_files)
    /\ LET af == ckpt[cur][1].audio_files[idx] IN
       IF SkipProcess(af)
       THEN /\ call' = NoCall
            /\ Step(Store(Uncut), pc, idx + 1)
            /\ UNCHANGED wav
       ELSE /\ call' = Call("transform", cur, idx)
            /\ \/ /\ raw[cur][af.filename] # NoFile
                  /\ wav' = [wav EXCEPT ![cur] = @ \cup {af.filename}]
                  /\ \E kill \in Kills :
                        Step(mark_file_processed(Store(kill), cur, af.filename),
                             pc, idx + 1)
               \/ /\ Step(Store(Uncut), pc, idx + 1)
                  /\ UNCHANGED wav
    /\ UNCHANGED <<raw, world, counters>>

\* A transform gate that reports the ratio over the downloaded files.
ProcessGateError_over_downloaded(checkpoint) ==
    RatioError("files processed", checkpoint.stats.processed_files,
               checkpoint.stats.downloaded_files)

\* processor.py:266 the error text of the transform gate
ProcessGateError(checkpoint) ==
    RatioError("files processed", checkpoint.stats.processed_files,
               checkpoint.stats.total_files)

\* A transform gate that marks the item failed and, without the return,
\* goes on to set the next stage.
ProcessGate_falling_through ==
    /\ pc = "processing"
    /\ ckpt[cur] # <<>>
    /\ idx > Len(ckpt[cur][1].audio_files)
    /\ call' = NoCall
    /\ UNCHANGED <<raw, wav, world, counters>>
    /\ LET checkpoint == ckpt[cur][1]
           processed == checkpoint.stats.processed_files
           total == checkpoint.stats.total_files
       IN
       IF total = 0
       THEN /\ ProcessGone
            /\ UNCHANGED <<ckpt, progress>>
       ELSE \E kill \in Kills :
            IF BelowGate(processed, total)
            THEN Finish(AfterStage(
                     update_champion_stage(
                         mark_champion_failed(Store(kill), cur, ProcessGateError(checkpoint)),
                         cur, CONCATENATING),
                     cur, 3, TRUE), cur, site, todo)
            ELSE Finish(AfterStage(
                     update_champion_stage(Store(kill), cur, CONCATENATING),
                     cur, 3, TRUE), cur, site, todo)

\* processor.py:256-276 the end of process_champion_audio, followed by
\* cli.py:113-114
ProcessGate ==
    /\ pc = "processing"
    /\ ckpt[cur] # <<>>
    /\ idx > Len(ckpt[cur][1].audio_files)
    /\ call' = NoCall
    /\ UNCHANGED <<raw, wav, world, counters>>
    /\ LET checkpoint == ckpt[cur][1]
           processed == checkpoint.stats.processed_files
           total == checkpoint.stats.total_files
       IN
       IF total = 0
       THEN /\ ProcessGone
            /\ UNCHANGED <<ckpt, progress>>
       ELSE \E kill \in Kills :
            IF BelowGate(processed, total)
            THEN Finish(AfterStage(
                     mark_champion_failed(Store(kill), cur, ProcessGateError(checkpoint)),
                     cur, 3, FALSE), cur, site, todo)
            ELSE Finish(AfterStage(
                     update_champion_stage(Store(kill), cur, CONCATENATING),
                     cur, 3, TRUE), cur, site, todo)

\* --------------------------------------------------------------- finalize
\* concatenator.py:345-357 the processed files whose entry (the last one of
\* that stem) has a valid transcript
UsableWavs(files, stems) ==
    {s \in stems :
        \E i \in DOMAIN files :
            /\ files[i].filename = s
            /\ \A j \in DOMAIN files : files[j].filename = s => j <= i
            /\ is_valid_transcript(files[i].transcript)}

\* concatenator.py:333-421 concatenate_champion after its stage update, and
\* cli.py:122-125.  Any step of the reference and training file creation can
\* raise; every exception is caught and marks the item failed.
Finalize ==
    /\ pc = "concatenating"
    /\ ckpt[cur] # <<>>
    /\ call' = Call("finalize", cur, 0)
    /\ UNCHANGED <<raw, wav, world, counters>>
    /\ \E kill \in Kills :
       IF wav[cur] = {}
       THEN Finish(Returned(mark_champion_failed(Store(kill), cur,
                       Error("No processed WAV files found")), "False"),
                   cur, site, todo)
       ELSE IF UsableWavs(ckpt[cur][1].audio_files, wav[cur]) = {}
       THEN Finish(Returned(mark_champion_failed(Store(kill), cur,
                       Error("No files with valid transcripts found")), "False"),
                   cur, site, todo)
       ELSE \/ Finish(Returned(mark_champion_completed(Store(kill), cur), "True"),
                      cur, site, todo)
            \/ Finish(Returned(mark_champion_failed(Store(kill), cur,
                          Error("Reference creation failed")), "False"),
                      cur, site, todo)

\* ------------------------------------------------------------ environment
\* The stage whose executor the process is inside.
RunningStage ==
    CASE pc \in {"scrape", "scraping"} -> SCRAPING
      [] pc = "downloading" -> DOWNLOADING
      [] pc = "processing" -> PROCESSING
      [] pc = "concatenating" -> CONCATENATING
      [] OTHER -> "none"

\* cli.py:33-42 the first SIGINT or SIGTERM sets the flag
Signal ==
    /\ Alive
    /\ ~shutdown_requested
    /\ shutdown_requested' = TRUE
    /\ signalled' = [champ |-> cur, stage |-> RunningStage]
    /\ call' = NoCall
    /\ UNCHANGED <<stored, world, pc, site, cur, idx, todo, champion_map,
                   needs_redownload, result, counters>>

\* The process is killed between two steps (SIGKILL, or cli.py:35-38 the
\* second signal): the store stays as the last step left it.
Kill ==
    /\ Alive
    /\ ProcessGone
    /\ call' = NoCall
    /\ UNCHANGED <<stored, world, counters>>

\* A raw file is deleted or damaged while no crawler runs and the item still
\* awaits (the rest of) its fetch stage, the only stage that verifies files.
Corrupt(c, f, content) ==
    /\ pc = "idle"
    /\ varied
    /\ corruptions < MaxCorrupt
    /\ ckpt[c] # <<>>
    /\ ckpt[c][1].stage = DOWNLOADING
    /\ raw[c][f] = Genuine
    /\ content \in {NoFile, Damaged}
    /\ raw' = [raw EXCEPT ![c][f] = content]
    /\ corruptions' = corruptions + 1
    /\ call' = NoCall
    /\ UNCHANGED <<ckpt, progress, wav, world, locals, clock, apiops, again>>

\* The checkpoint file of the item in its fetch stage is removed by someone
\* else (the state directory is plain files) when the loop of
\* download_all_audio is through and the checkpoint is about to be loaded
\* again at scraper.py:393.
LoseCheckpoint ==
    /\ pc = "downloading"
    /\ apiops < budget
    /\ ckpt[cur] # <<>>
    /\ idx > Len(ckpt[cur][1].audio_files)
    /\ ckpt' = [ckpt EXCEPT ![cur] = <<>>]
    /\ apiops' = apiops + 1
    /\ call' = NoCall
    /\ UNCHANGED <<progress, raw, wav, world, locals, clock, corruptions, again>>

\* ------------------------------------------------- direct StateManager calls
\* The public methods of StateManager, called by a client other than the
\* crawler while no crawler runs.
ApiCall(st, made) ==
    /\ pc = "idle"
    /\ apiops < budget
    /\ apiops' = apiops + 1
    /\ again' = (made = call)
    /\ ckpt' = st.ckpt
    /\ progress' = st.progress
    /\ call' = made
    /\ returned' = NoSummary
    /\ UNCHANGED <<raw, wav, setting, inflight, locals, clock, corruptions>>

\* state_manager.py:159 update_champion_stage
ApiUpdateStage(c, stage) ==
    /\ ckpt[c] # <<>>
    /\ ApiCall(update_champion_stage(Store(Uncut), c, stage),
               Call("update_champion_stage", c, 0))

\* state_manager.py:144 mark_champion_completed
ApiMarkCompleted(c) ==
    /\ ckpt[c] # <<>>
    /\ ApiCall(mark_champion_completed(Store(Uncut), c),
               Call("mark_champion_completed", c, 0))

\* state_manager.py:151 mark_champion_failed
ApiMarkFailed(c) ==
    /\ ckpt[c] # <<>>
    /\ ApiCall(mark_champion_failed(Store(Uncut), c, Error("marked by caller")),
               Call("mark_champion_failed", c, 0))

\* state_manager.py:80 mark_file_downloaded, on a file that exists
ApiMarkFileDownloaded(c, f) ==
    /\ ckpt[c] # <<>>
    /\ raw[c][f] # NoFile
    /\ ApiCall(mark_file_downloaded(Store(Uncut), c, f, raw[c][f], StatSize(raw[c][f])),
               Call("mark_file_downloaded", c, f))

\* state_manager.py:106 mark_file_processed
ApiMarkFileProcessed(c, f) ==
    /\ ckpt[c] # <<>>
    /\ ApiCall(mark_file_processed(Store(Uncut), c, f),
               Call("mark_file_processed", c, f))

\* state_manager.py:125 mark_file_failed
ApiMarkFileFailed(c, f) ==
    /\ ckpt[c] # <<>>
    /\ ApiCall(mark_file_failed(Store(Uncut), c, f, Error("marked by caller")),
               Call("mark_file_failed", c, f))

\* reset removing the session record and keeping the checkpoints.
Reset_keeping_checkpoints ==
    /\ clock < MaxSessions
    /\ progress # <<>>
    /\ ApiCall([ckpt |-> ckpt, progress |-> <<>>,
                kill |-> Uncut, dead |-> FALSE],
               Call("reset", None, 0))

\* state_manager.py:228 reset: the state directory is removed and made anew
Reset ==
    /\ clock < MaxSessions
    /\ progress # <<>>
    /\ ApiCall([ckpt |-> [i \in Ids |-> <<>>], progress |-> <<>>,
                kill |-> Uncut, dead |-> FALSE],
               Call("reset", None, 0))

\* state_manager.py:68 create_champion_checkpoint, for an item of the roster
ApiCreateCheckpoint(c) ==
    /\ c \in {ChampionId(n) : n \in roster}
    /\ ApiCall(create_champion_checkpoint(Store(Uncut), c, NameOf(c)),
               Call("create_champion_checkpoint", c, 0))

\* state_manager.py:54 save_checkpoint with the checkpoint changed the way
\* discovery changes it (scraper.py:121-125)
ApiSaveDiscovered(c, n, dup) ==
    /\ ckpt[c] # <<>>
    /\ ckpt[c] # <<Truncated>>
    /\ n <= limit
    /\ dup => n >= 2 /\ varied
    /\ ApiCall(save_checkpoint(Store(Uncut), c,
                   StoreDiscovered(ckpt[c][1], Discovered(n, dup, "quoted"))),
               Call("save_checkpoint", c, 0))

Api ==
    \/ \E c \in Ids, stage \in ChampionStatus : ApiUpdateStage(c, stage)
    \/ \E c \in Ids : ApiMarkCompleted(c)
    \/ \E c \in Ids : ApiMarkFailed(c)
    \/ \E c \in Ids, f \in FileNames : ApiMarkFileDownloaded(c, f)
    \/ \E c \in Ids, f \in FileNames : ApiMarkFileProcessed(c, f)
    \/ \E c \in Ids, f \in FileNames : ApiMarkFileFailed(c, f)
    \/ Reset

\* The commands and the crawler process.
Crawl ==
    \/ \E n \in Names : AddChampion(n)
    \/ ResumeCmd
    \/ ScrapeCmd
    \/ ResumeIncomplete
    \/ PendingList
    \/ LoopNext
    \/ ScrapeCreateCheckpoint
    \/ ScrapeSetStage
    \/ ScrapePage
    \/ DownloadStep
    \/ DownloadGate
    \/ ProcessStep
    \/ ProcessGate
    \/ Finalize
    \/ Signal
    \/ Kill

Next ==
    \/ Crawl
    \/ \E c \in Ids, f \in FileNames, content \in {NoFile, Damaged} : Corrupt(c, f, content)

Spec == Init /\ [][Next]_vars

\* The crawler together with a client of the StateManager, on one item with
\* up to MaxFilesVaried regular files that nothing damages.
InitApi ==
    /\ EmptyStore
    /\ NoProcess
    /\ roster = {"Ahri"}
    /\ limit = MaxFilesVaried
    /\ varied = FALSE
    /\ budget = MaxApiOps

SpecApi == InitApi /\ [][Crawl \/ Api]_vars

\* The crawler over two items, with a checkpoint file that can vanish.
InitLost ==
    /\ EmptyStore
    /\ NoProcess
    /\ roster = Names
    /\ limit = MaxFilesSession
    /\ varied = FALSE
    /\ budget = MaxApiOps

SpecLost == InitLost /\ [][Crawl \/ LoseCheckpoint]_vars

\* A client of the StateManager alone, with no crawler: it registers the
\* items, creates their checkpoints, stores discovered files as discovery
\* does, and calls the mark and stage methods in any order.  The raw files
\* of an earlier crawl are on disk (reset leaves the output directory).
InitManager ==
    /\ ckpt = [i \in Ids |-> <<>>]
    /\ progress = <<>>
    /\ raw = [i \in Ids |-> [f \in FileNames |->
                 IF f <= MaxFilesVaried THEN Genuine ELSE NoFile]]
    /\ wav = [i \in Ids |-> {}]
    /\ clock = 0
    /\ corruptions = 0
    /\ apiops = 0
    /\ again = FALSE
    /\ NoProcess
    /\ roster = {"Ahri"}
    /\ limit = MaxFilesVaried
    /\ varied = TRUE
    /\ budget = MaxManagerOps

\* state_manager.py:240 get_status_summary
ApiStatusSummary ==
    /\ pc = "idle"
    /\ apiops < budget
    /\ apiops' = apiops + 1
    /\ again' = FALSE
    /\ call' = Call("get_status_summary", None, 0)
    /\ returned' = get_status_summary(progress)
    /\ UNCHANGED <<stored, setting, inflight, locals, clock, corruptions>>

\* state_manager.py:31 load_progress called by itself: the session of the
\* state directory is loaded, or a new one with no items is created and saved.
ApiLoadProgress ==
    /\ pc = "idle"
    /\ apiops < budget
    /\ progress # <<>> \/ clock < MaxSessions
    /\ apiops' = apiops + 1
    /\ again' = FALSE
    /\ call' = Call("load_progress", None, 0)
    /\ returned' = NoSummary
    /\ progress' = load_progress(progress, clock + 1)
    /\ clock' = IF progress = <<>> THEN clock + 1 ELSE clock
    /\ UNCHANGED <<ckpt, raw, wav, setting, inflight, locals, corruptions>>

Manager ==
    \/ ApiStatusSummary
    \/ ApiLoadProgress
    \/ \E n \in Names : AddChampion(n)
    \/ \E c \in Ids : ApiCreateCheckpoint(c)
    \/ \E c \in Ids, n \in 1 .. MaxFilesVaried, dup \in BOOLEAN : ApiSaveDiscovered(c, n, dup)
    \/ Api

SpecManager == InitManager /\ [][Manager]_vars

\* ------------------------------------------------------ concurrent callers
\* The mark_file_* methods.
MarkOps == {"mark_file_downloaded", "mark_file_processed", "mark_file_failed"}

\* A mark_file_* method by its name.
ApplyMark(st, op, c, f) ==
    CASE op = "mark_file_downloaded" ->
            mark_file_downloaded(st, c, f, raw[c][f], StatSize(raw[c][f]))
      [] op = "mark_file_processed" -> mark_file_processed(st, c, f)
      [] op = "mark_file_failed" -> mark_file_failed(st, c, f, Error("marked by caller"))

\* state_manager.py:84, 108, 127 the first half of a mark_file_* call by
\* client k: checkpoint = self.get_champion_checkpoint(champion_id).  Nothing
\* in the StateManager keeps another client from calling meanwhile: there
\* is no lock, in the process or on the file.
ClientLoad(k, op, c, f) ==
    /\ pc = "idle"
    /\ apiops < budget
    /\ inflight[k] = <<>>
    /\ ckpt[c] # <<>>
    /\ op = "mark_file_downloaded" => raw[c][f] # NoFile
    /\ inflight' = [inflight EXCEPT ![k] =
                       <<[op |-> op, champ |-> c, file |-> f, read |-> ckpt[c]]>>]
    /\ apiops' = apiops + 1
    /\ again' = FALSE
    /\ call' = NoCall
    /\ UNCHANGED <<stored, setting, returned, locals, clock, corruptions>>

\* state_manager.py:91-104, 112-123, 131-142 the second half: the entry and
\* the stats are changed in the record that was loaded, and
\* save_checkpoint writes that record over the file.
ClientSave(k) ==
    /\ inflight[k] # <<>>
    /\ LET j == inflight[k][1]
           st == [Store(Uncut) EXCEPT !.ckpt[j.champ] = j.read]
           out == ApplyMark(st, j.op, j.champ, j.file)
       IN /\ ckpt' = [ckpt EXCEPT ![j.champ] = out.ckpt[j.champ]]
          /\ progress' = out.progress
          /\ call' = Call(j.op, j.champ, j.file)
    /\ inflight' = [inflight EXCEPT ![k] = <<>>]
    /\ again' = FALSE
    /\ UNCHANGED <<raw, wav, setting, returned, locals, clock, corruptions, apiops>>

\* Items are registered and their files discovered while no call is in
\* flight.
Setup ==
    /\ \A k \in Clients : inflight[k] = <<>>
    /\ \/ \E n \in Names : AddChampion(n)
       \/ \E c \in Ids : ApiCreateCheckpoint(c)
       \/ \E c \in Ids, n \in 1 .. MaxFilesVaried, dup \in BOOLEAN :
             ApiSaveDiscovered(c, n, dup)

Concurrent ==
    \/ Setup
    \/ \E k \in Clients, op \in MarkOps, c \in Ids, f \in FileNames : ClientLoad(k, op, c, f)
    \/ \E k \in Clients : ClientSave(k)

SpecConcurrent == InitManager /\ [][Concurrent]_vars

\* ------------------------------------------------------------ properties
\* models.py:11-19 the stages in their order
Succ(stage) ==
    CASE stage = PENDING -> SCRAPING
      [] stage = SCRAPING -> DOWNLOADING
      [] stage = DOWNLOADING -> PROCESSING
      [] stage = PROCESSING -> CONCATENATING
      [] stage = CONCATENATING -> COMPLETED
      [] OTHER -> "none"

\* models.py:134-142 the stages update_champion_status treats as final
Terminal == {COMPLETED, FAILED}

\* The persisted stage of item c, "none" while it has no checkpoint.
StageIn(checkpoints, c) ==
    IF checkpoints[c] = <<>> THEN "none" ELSE checkpoints[c][1].stage

\* The number of sub-items of c marked fetched, and marked transformed.
Fetched(c) == CountDownloaded(ckpt[c][1].audio_files)
Transformed(c) == CountProcessed(ckpt[c][1].audio_files)

\* The step in which the batch of the executor at where ends: the loop is
\* through, and the step is neither the signal handler nor a kill between
\* two steps.
BatchEnds(where) ==
    /\ pc = where
    /\ idx > Len(ckpt[cur][1].audio_files)
    /\ pc' # pc
    /\ ~(pc' = "idle" /\ ckpt' = ckpt)
    /\ ckpt'[cur] # <<Truncated>>

\* C1: when the fetch batch of an item with t >= 1 sub-items ends with d of
\* them marked fetched, the item is failed iff 2*d < t; otherwise (exactly
\* one half included) its stage becomes processing and download_all_audio
\* returns True, so that process_champion goes on to the transform stage
\* unless shutdown was requested.
C1_FetchRatioGate ==
    [][BatchEnds("downloading") =>
         LET d == Fetched(cur)
             t == Len(ckpt[cur][1].audio_files)
         IN IF 2 * d < t
            THEN /\ StageIn(ckpt', cur) = FAILED
                 /\ pc' # "idle" => result' = [champ |-> cur, ret |-> "False"]
            ELSE /\ StageIn(ckpt', cur) = PROCESSING
                 /\ pc' # "idle" /\ ~shutdown_requested => pc' = "processing"
      ]_vars

\* The fetch gate has let an item pass with exactly half of its files.
C1_Witness ==
    /\ pc = "processing"
    /\ idx = 1
    /\ StageIn(ckpt, cur) = PROCESSING
    /\ 2 * Fetched(cur) = Len(ckpt[cur][1].audio_files)

\* C2: when the transform batch ends, the item is failed iff
\* 2 * (transformed sub-items) < (all sub-items, fetched or not); otherwise
\* it advances to concatenating.  The transform executor is invoked only on
\* a sub-item that is fetched and not yet transformed.
C2_TransformRatioGate ==
    [][/\ BatchEnds("processing") =>
            IF 2 * Transformed(cur) < Len(ckpt[cur][1].audio_files)
            THEN StageIn(ckpt', cur) = FAILED
            ELSE StageIn(ckpt', cur) = CONCATENATING
       /\ call'.exec = "transform" =>
            /\ pc = "processing"
            /\ call' = Call("transform", cur, idx)
            /\ idx <= Len(ckpt[cur][1].audio_files)
            /\ ckpt[cur][1].audio_files[idx].downloaded
            /\ ~ckpt[cur][1].audio_files[idx].processed
      ]_vars

\* The transform gate has let an item pass that has a file never fetched.
C2_Witness ==
    /\ pc = "concatenating"
    /\ StageIn(ckpt, cur) = CONCATENATING
    /\ Fetched(cur) < Len(ckpt[cur][1].audio_files)
    /\ Transformed(cur) >= 1

\* The scenario of C3: 4 sub-items, 3 of them fetched.
ThreeOfFour(c) ==
    /\ Len(ckpt[c][1].audio_files) = 4
    /\ Fetched(c) = 3

\* C3 as amended: an item with 4 sub-items of which 3 are fetched advances to
\* processing; when only 1 of them is then transformed the item is failed
\* and its error reports 1 out of 4, the ratio over all sub-items.
C3_OneOfFour ==
    [][/\ BatchEnds("downloading") /\ ThreeOfFour(cur) =>
            StageIn(ckpt', cur) = PROCESSING
       /\ BatchEnds("processing") /\ ThreeOfFour(cur) /\ Transformed(cur) = 1 =>
            /\ StageIn(ckpt', cur) = FAILED
            /\ ckpt'[cur][1].error = RatioError("files processed", 1, 4)
      ]_vars

\* C3 as stated: in that scenario the stored error reports 1 out of 3.
C3_OneOfThree ==
    [][/\ BatchEnds("downloading") /\ ThreeOfFour(cur) =>
            StageIn(ckpt', cur) = PROCESSING
       /\ BatchEnds("processing") /\ ThreeOfFour(cur) /\ Transformed(cur) = 1 =>
            /\ StageIn(ckpt', cur) = FAILED
            /\ ckpt'[cur][1].error = RatioError("files processed", 1, 3)
      ]_vars

\* The scenario has run: 3 of 4 fetched, 1 transformed, the item failed at
\* the transform gate.
C3_Witness ==
    \E c \in Ids :
        /\ ckpt[c] # <<>>
        /\ ThreeOfFour(c)
        /\ Transformed(c) = 1
        /\ ckpt[c][1].stage = FAILED
        /\ ckpt[c][1].error.text = "files processed"

\* C4: the persisted stage of an item starts at pending and from then on, in
\* every step of the crawler (signal, kill and resume included), either
\* stays, or moves from a stage that is not final to the next one in the
\* order pending, scraping, downloading, processing, concatenating,
\* completed, or to failed.  So a completed item has been in all six.
C4_StageOrder ==
    [][\A c \in Ids :
         IF ckpt[c] = <<>>
         THEN StageIn(ckpt', c) \in {"none", PENDING} \/ ckpt'[c] = <<Truncated>>
         ELSE \/ StageIn(ckpt', c) = StageIn(ckpt, c)
              \/ /\ StageIn(ckpt, c) \notin Terminal
                 /\ StageIn(ckpt', c) \in {Succ(StageIn(ckpt, c)), FAILED}
              \/ ckpt'[c] = <<Truncated>>
      ]_vars

\* An item has come all the way to completed in a run that was resumed.
C4_Witness ==
    \E c \in Ids :
        /\ StageIn(ckpt, c) = COMPLETED
        /\ site = "inc"
        /\ result = [champ |-> c, ret |-> "True"]

\* C5: no StateManager operation other than reset changes the stage of an
\* item whose persisted stage is completed or failed.
C5_TerminalAbsorbing ==
    [][\A c \in Ids :
         StageIn(ckpt, c) \in Terminal /\ ckpt'[c] # <<>> =>
             StageIn(ckpt', c) = StageIn(ckpt, c)
      ]_vars

\* The executors' positions of the process.
InExecutor(where) == where \in {"scrape", "scraping", "downloading", "processing", "concatenating"}

\* C6: process_champion run on an item whose persisted stage is completed or
\* failed invokes no executor and leaves the checkpoints, the session
\* progress and the files as they are.
C6_RerunIdempotent ==
    [][\A c \in Ids :
         call' = Call("process_champion", c, 0) /\ StageIn(ckpt, c) \in Terminal =>
             /\ ckpt' = ckpt
             /\ progress' = progress
             /\ raw' = raw
             /\ wav' = wav
             /\ ~InExecutor(pc')
             /\ result'.champ = c
             /\ ~shutdown_requested => result'.ret = "True"
      ]_vars

\* process_champion has been run on a completed item and has returned.
C6_Witness ==
    \E c \in Ids :
        /\ call = Call("process_champion", c, 0)
        /\ StageIn(ckpt, c) = COMPLETED
        /\ result = [champ |-> c, ret |-> "True"]

\* C7: when process_champion returns and no shutdown was requested, the
\* persisted stage of its item is completed or failed.
C7_ReachesTerminal ==
    result.ret # "none" /\ ~shutdown_requested =>
        StageIn(ckpt, result.champ) \in Terminal

\* process_champion has returned for the item whose executor ran when
\* shutdown was requested.
ReturnedAfterSignal ==
    /\ result.ret # "none"
    /\ signalled.stage \in {SCRAPING, DOWNLOADING, PROCESSING}
    /\ result.champ = signalled.champ

\* C8 as amended: when shutdown is requested while the discovery, fetch or
\* transform executor runs for an item, the executor finishes its batch and
\* itself advances the stage, so that process_champion returns False with
\* the persisted stage the one after the stage that was running, or failed.
C8_StopsAfterRunningStage ==
    ReturnedAfterSignal =>
        /\ result.ret = "False"
        /\ StageIn(ckpt, result.champ) \in {Succ(signalled.stage), FAILED}

\* C8 as stated: when process_champion returns, the persisted stage is still
\* the stage that was running when shutdown was requested; it has not
\* advanced (an item the executor failed apart).
C8_StageNotAdvanced ==
    ReturnedAfterSignal => StageIn(ckpt, result.champ) \in {signalled.stage, FAILED}

\* Shutdown was requested during the fetch batch, and process_champion has
\* returned with the item in processing.
C8_Witness ==
    /\ ReturnedAfterSignal
    /\ signalled.stage = DOWNLOADING
    /\ StageIn(ckpt, result.champ) = PROCESSING
    /\ result.ret = "False"

\* C9: once shutdown is requested, the executor that runs goes on until its
\* batch is through (unless the process is killed), and no other executor
\* is started, for the current item or for a later one.
C9_NoFurtherExecutor ==
    [][shutdown_requested =>
         /\ InExecutor(pc') => RunningStage' = RunningStage
         /\ pc \in {"downloading", "processing"} /\ pc' \notin {pc, "idle"} =>
                idx > Len(ckpt[cur][1].audio_files)
      ]_vars

\* Shutdown was requested during the first item of two: process_champion
\* has returned and the second item is still to do.
C9_Witness ==
    /\ shutdown_requested
    /\ signalled.stage \in {DOWNLOADING, PROCESSING}
    /\ result.ret = "False"
    /\ pc = "loop"
    /\ todo # <<>>

\* C10: in every persisted checkpoint the stats equal the counts over the
\* sub-items: total_files their number, downloaded_files those with
\* downloaded set, processed_files those with processed set, and
\* failed_downloads those with an error.
C10_StatsConsistent ==
    \A c \in Ids :
        ckpt[c] # <<>> =>
            LET files == ckpt[c][1].audio_files
                stats == ckpt[c][1].stats
            IN /\ stats.total_files = Len(files)
               /\ stats.downloaded_files = CountDownloaded(files)
               /\ stats.processed_files = CountProcessed(files)
               /\ stats.failed_downloads = CountFailed(files)

\* C11: a mark_file_downloaded, mark_file_processed or mark_file_failed call
\* that repeats the call before it (same item, same sub-item name, same
\* file) leaves the checkpoints, hence every sub-item flag and every stat,
\* as the first call left them.
C11_MarkTwice ==
    [][again' /\ call'.exec \in MarkOps => ckpt' = ckpt]_vars

\* mark_file_failed has been called twice in a row on a sub-item that
\* exists, and mark_file_downloaded likewise.
C11_Witness ==
    /\ again
    /\ call.exec \in {"mark_file_failed", "mark_file_downloaded"}
    /\ ckpt[call.champ] # <<>>
    /\ \E i \in DOMAIN ckpt[call.champ][1].audio_files :
          /\ ckpt[call.champ][1].audio_files[i].filename = call.file
          /\ \/ call.exec = "mark_file_failed" /\ ckpt[call.champ][1].audio_files[i].error # NoError
             \/ call.exec = "mark_file_downloaded" /\ ckpt[call.champ][1].audio_files[i].downloaded

\* The number of sub-items of c marked fetched whose raw file is on disk
\* with the stored checksum.
IntactFetched(c) ==
    Cardinality({i \in DOMAIN ckpt[c][1].audio_files :
        LET af == ckpt[c][1].audio_files[i] IN
        /\ af.downloaded
        /\ af.checksum # NoChecksum
        /\ verify_file_integrity(raw[c][af.filename], af.checksum)})

\* C12: the fetch gate counts as fetched only sub-items whose file is on
\* disk and matches its checksum: a sub-item marked fetched whose file is
\* missing or damaged, and whose re-fetch failed, does not count.
C12_GateCountsIntact ==
    [][BatchEnds("downloading") =>
         (StageIn(ckpt', cur) = FAILED <=>
             2 * IntactFetched(cur) < Len(ckpt[cur][1].audio_files))
      ]_vars

\* Sub-item af of c is marked fetched and its raw file is on disk with the
\* stored checksum.
Intact(c, af) ==
    /\ af.downloaded
    /\ af.checksum # NoChecksum
    /\ verify_file_integrity(raw[c][af.filename], af.checksum)

\* C13: in a round of the fetch batch the file is fetched exactly when the
\* sub-item is not marked fetched, or its file is missing or fails the
\* checksum; a sub-item marked fetched with an intact file is not fetched.
\* Nothing is fetched outside the fetch batch of an item in downloading.
C13_SelectiveRefetch ==
    [][/\ call'.exec = "fetch" =>
            /\ pc = "downloading"
            /\ StageIn(ckpt, cur) = DOWNLOADING
            /\ idx <= Len(ckpt[cur][1].audio_files)
            /\ call' = Call("fetch", cur, idx)
            /\ ~Intact(cur, ckpt[cur][1].audio_files[idx])
       /\ pc = "downloading" /\ idx' = idx + 1 =>
            (Intact(cur, ckpt[cur][1].audio_files[idx]) <=> call'.exec # "fetch")
      ]_vars

\* A resumed fetch batch has fetched a damaged or missing file again, and
\* has passed over an intact one.
C13_Witness ==
    /\ pc = "downloading"
    /\ call.exec = "fetch"
    /\ needs_redownload # {}
    /\ ckpt[cur][1].audio_files[call.file].filename \in needs_redownload
    /\ raw[cur][ckpt[cur][1].audio_files[call.file].filename] = Genuine
    /\ \E i \in DOMAIN ckpt[cur][1].audio_files :
          /\ i < call.file
          /\ ckpt[cur][1].audio_files[i].downloaded
          /\ ckpt[cur][1].audio_files[i].filename \notin needs_redownload

\* C14: in every persisted checkpoint, every sub-item marked downloaded has
\* a checksum and a file size.
C14_FetchedHasChecksum ==
    \A c \in Ids :
        ckpt[c] # <<>> =>
            \A i \in DOMAIN ckpt[c][1].audio_files :
                ckpt[c][1].audio_files[i].downloaded =>
                    /\ ckpt[c][1].audio_files[i].checksum # NoChecksum
                    /\ ckpt[c][1].audio_files[i].file_size # NoSize

\* A sub-item is marked downloaded, with the checksum and the size of the
\* file the fetch wrote.
C14_Witness ==
    \E c \in Ids :
        /\ ckpt[c] # <<>>
        /\ \E i \in DOMAIN ckpt[c][1].audio_files :
              /\ ckpt[c][1].audio_files[i].downloaded
              /\ ckpt[c][1].audio_files[i].checksum = CalculateChecksum(Genuine)
              /\ ckpt[c][1].audio_files[i].file_size = StatSize(Genuine)

\* C15: whenever the store can be observed, the status the session progress
\* records for an item that has a checkpoint is the stage of the checkpoint.
C15_ProgressMatchesCheckpoint ==
    \A c \in Ids :
        ckpt[c] # <<>> /\ progress # <<>> =>
            StatusOf(progress[1].champions, c) = ckpt[c][1].stage


\* C16: a kill during or after a save of an item's checkpoint leaves a
\* checkpoint file that loads: it holds the complete record that was
\* persisted before the save or the complete record the save was given,
\* never a truncated one.
C16_NoTruncatedRecord ==
    \A c \in Ids : ckpt[c] # <<Truncated>>


\* C17: in a run over a list of items with no shutdown requested, every
\* item of the list is handed to process_champion, in list order and one at
\* a time, whatever became of the items before it: when the run goes past
\* the head of the list, it has invoked process_champion on it.
C17_EveryItemAttempted ==
    [][/\ pc = "loop"
       /\ todo # <<>>
       /\ ~shutdown_requested
       /\ pc' # "idle"
       /\ todo' # todo
       => /\ todo' = Tail(todo)
          /\ call' = Call("process_champion", Head(todo), 0)
      ]_vars


\* Entry idx of the running batch is one the batch has to attempt: the fetch
\* batch passes over an entry marked fetched that verify_downloads did not
\* report, the transform batch over one that is transformed or not fetched.
Eligible ==
    LET af == ckpt[cur][1].audio_files[idx] IN
    IF pc = "downloading" THEN ~SkipDownload(af, needs_redownload)
    ELSE ~SkipProcess(af)

\* C18: a failing sub-item never ends its batch.  While the fetch or the
\* transform batch of an item has entries left, every step of the living
\* process stays in the batch and leaves the stage alone (the ratio gate
\* comes after the last entry only); a round moves on by exactly one entry,
\* whatever became of the entries before, and invokes the executor on that
\* entry iff it is eligible.
C18_BatchRunsThrough ==
    [][/\ pc \in {"downloading", "processing"}
       /\ idx <= Len(ckpt[cur][1].audio_files)
       /\ pc' # "idle"
       => /\ pc' = pc
          /\ cur' = cur
          /\ StageIn(ckpt', cur) = StageIn(ckpt, cur)
          /\ idx' \in {idx, idx + 1}
          /\ idx' = idx => call' = NoCall
          /\ idx' = idx + 1 =>
                IF Eligible
                THEN /\ call'.exec \in {"fetch", "verify", "transform"}
                     /\ call'.champ = cur
                     /\ call'.file = idx
                ELSE call' = NoCall
      ]_vars

\* The fetch batch has gone on to a later entry after an entry that failed.
C18_Witness ==
    /\ pc = "downloading"
    /\ call.exec = "fetch"
    /\ idx = call.file + 1
    /\ \E i \in DOMAIN ckpt[cur][1].audio_files :
          /\ i < call.file
          /\ ckpt[cur][1].audio_files[i].error # NoError
          /\ ~ckpt[cur][1].audio_files[i].downloaded


\* scraper.py:105, 116 the error texts of a discovery that failed
DiscoveryErrors ==
    {Error("Failed to fetch audio page"), Error("No Original skin audio files found")}

\* C19: the discovery executor leaves one of two records behind (unless the
\* process is killed inside the write of it): stage downloading with at
\* least one sub-item, or, when the page could not be fetched or held no
\* sub-item, stage failed with an error text and an empty sub-item list;
\* in the second case process_champion returns False at once.  No fetch,
\* verify, transform or finalize executor is ever invoked for an item
\* whose persisted stage is failed.
C19_DiscoveryFailure ==
    [][/\ call'.exec = "discovery" /\ ckpt'[cur] # <<Truncated>> =>
            LET after == ckpt'[cur][1] IN
            /\ call'.champ = cur
            /\ \/ /\ after.stage = DOWNLOADING
                  /\ after.audio_files # <<>>
                  /\ after.error = NoError
               \/ /\ after.stage = FAILED
                  /\ after.error \in DiscoveryErrors
                  /\ after.audio_files = <<>>
                  /\ ~InExecutor(pc')
                  /\ pc' # "idle" => result' = [champ |-> cur, ret |-> "False"]
       /\ call'.exec \in {"fetch", "verify", "transform", "finalize"} =>
            StageIn(ckpt, call'.champ) # FAILED
      ]_vars

\* Discovery has failed an item, and the run has gone on to the rest of
\* its list.
C19_Witness ==
    \E c \in Ids :
        /\ pc = "loop"
        /\ call = Call("discovery", c, 0)
        /\ result = [champ |-> c, ret |-> "False"]
        /\ StageIn(ckpt, c) = FAILED
        /\ ckpt[c][1].error \in DiscoveryErrors
        /\ ckpt[c][1].audio_files = <<>>
        /\ StatusOf(progress[1].champions, c) = FAILED


\* concatenator.py:337, 361, 419 the error texts of a finalize that failed
FinalizeErrors ==
    {Error("No processed WAV files found"),
     Error("No files with valid transcripts found"),
     Error("Reference creation failed")}

\* C20: the finalize executor, run on an item in stage concatenating,
\* leaves it in a terminal stage (unless the process is killed inside the
\* write of the record): completed, which takes at least one usable
\* transformed file, with process_champion returning True, or failed with
\* the error text of the step that failed, with process_champion returning
\* False.  The item never stays in concatenating.
C20_FinalizeOutcome ==
    [][call'.exec = "finalize" /\ ckpt'[cur] # <<Truncated>> =>
         LET after == ckpt'[cur][1] IN
         /\ call'.champ = cur
         /\ StageIn(ckpt, cur) = CONCATENATING
         /\ after.stage \in Terminal
         /\ UsableWavs(ckpt[cur][1].audio_files, wav[cur]) = {} => after.stage = FAILED
         /\ after.stage = FAILED => after.error \in FinalizeErrors
         /\ after.stage = COMPLETED => after.error = ckpt[cur][1].error
         /\ ~InExecutor(pc')
         /\ pc' # "idle" =>
               result' = [champ |-> cur,
                          ret |-> IF after.stage = COMPLETED THEN "True" ELSE "False"]
      ]_vars

\* Finalize has failed an item that had usable transformed files, because a
\* step of it raised.
C20_Witness ==
    \E c \in Ids :
        /\ call = Call("finalize", c, 0)
        /\ result = [champ |-> c, ret |-> "False"]
        /\ StageIn(ckpt, c) = FAILED
        /\ ckpt[c][1].error = Error("Reference creation failed")
        /\ UsableWavs(ckpt[c][1].audio_files, wav[c]) # {}

\* C21: in the runs of the orchestrator (no reset, any kills and restarts),
\* no item has the status completed in the session progress while it is
\* listed in failed_champions.
C21_OneTerminalStatus ==
    progress # <<>> =>
        \A c \in Ids :
            ~(/\ StatusOf(progress[1].champions, c) = COMPLETED
              /\ InList(progress[1].failed_champions, c))

\* One session holds an item that failed and an item that was completed.
C21_Witness ==
    /\ progress # <<>>
    /\ \E c, d \in Ids :
          /\ StatusOf(progress[1].champions, c) = FAILED
          /\ InList(progress[1].failed_champions, c)
          /\ StatusOf(progress[1].champions, d) = COMPLETED
          /\ ~InList(progress[1].failed_champions, d)

\* models.py:142 the stages update_champion_status takes as running
RunningStages == {SCRAPING, DOWNLOADING, PROCESSING, CONCATENATING}

\* C22: in every state of the session progress, an item whose status is a
\* running one (scraping, downloading, processing, concatenating) is the
\* item that in_progress_champion names; so at most one item is running.
C22_OneInProgress ==
    progress # <<>> =>
        \A c \in Ids :
            StatusOf(progress[1].champions, c) \in RunningStages =>
                progress[1].in_progress_champion = c

\* The place of item id in the status map of session p (0: not in it).
PlaceOf(p, id) ==
    IF InDict(p.champions, id)
    THEN CHOOSE i \in DOMAIN p.champions : p.champions[i][1] = id
    ELSE 0

\* The stage at which process_champion invokes an executor.
StageOfExecutor(exec) ==
    CASE exec = "discovery" -> SCRAPING
      [] exec \in {"fetch", "verify"} -> DOWNLOADING
      [] exec = "transform" -> PROCESSING
      [] exec = "finalize" -> CONCATENATING
      [] OTHER -> "none"

\* The parts of the resume order that hold without a condition: the item in
\* progress comes first, before anything else is done in the run; every
\* executor is invoked on an item at the executor's own stage only, so that
\* none of an earlier stage runs; and the list of the pending items is
\* taken, after that item, in the order of the status map.  (A step to idle
\* is the process killed or ended.)
ResumeOrder ==
    /\ pc = "resume_inc" =>
          /\ todo = <<>>
          /\ result = NoResult
          /\ LET inc == progress[1].in_progress_champion IN
             /\ call'.exec = "process_champion" => call'.champ = inc
             /\ /\ inc # None
                /\ inc \in champion_map \/ ckpt[inc] # <<>>
                /\ ckpt[inc] # <<Truncated>>
                /\ pc' # pc
                /\ pc' # "idle"
                => call' = Call("process_champion", inc, 0)
    /\ call'.exec = "process_champion" => pc \in {"resume_inc", "loop"}
    /\ StageOfExecutor(call'.exec) # "none" =>
          StageIn(ckpt, call'.champ) = StageOfExecutor(call'.exec)
    /\ pc = "pending_list" /\ pc' = "loop" =>
          /\ \A c \in Ids :
                InList(todo', c) <=> StatusOf(progress[1].champions, c) = PENDING
          /\ \A i, j \in DOMAIN todo' :
                i < j => PlaceOf(progress[1], todo'[i]) < PlaceOf(progress[1], todo'[j])

C24_LostCheckpointFails ==
    [][pc = "downloading" /\ ckpt[cur] = <<>> /\ pc' # pc /\ pc' # "idle" =>
         /\ pc' \in {"pending_list", "loop"}
         /\ result' = [champ |-> cur, ret |-> "False"]
         /\ StageIn(ckpt', cur) = FAILED
         /\ ckpt'[cur][1].error # NoError
         /\ StatusOf(progress'[1].champions, cur) = FAILED
      ]_vars

\* C25: a mark call that ends while other mark calls on the item are under
\* way loses nothing: every sub-item flag and error that is in the persisted
\* record when the call writes is in the record it leaves; so after two
\* concurrent marks on different sub-items both updates are there.
C25_NoLostUpdate ==
    [][\A k \in Clients :
         inflight[k] # <<>> /\ inflight'[k] = <<>> =>
            LET c == inflight[k][1].champ
                before == ckpt[c][1].audio_files
                after == ckpt'[c][1].audio_files
            IN \A i \in DOMAIN before :
                  /\ before[i].downloaded => after[i].downloaded
                  /\ before[i].processed => after[i].processed
                  /\ before[i].error # NoError => after[i].error # NoError
      ]_vars

\* What mark_file_failed(call'.champ, call'.file, ...) leaves alone in the
\* record of an item that has a checkpoint, and what it sets: the error of
\* the first sub-item of that name, and the failed count, recounted.
MarkFailedFrame ==
    LET before == ckpt[call'.champ][1]
        after == ckpt'[call'.champ][1]
        k == FirstNamed(before.audio_files, call'.file)
    IN /\ \A d \in Ids \ {call'.champ} : ckpt'[d] = ckpt[d]
       /\ after.stage = before.stage
       /\ after.error = before.error
       /\ after.champion_id = before.champion_id
       /\ after.champion_name = before.champion_name
       /\ DOMAIN after.audio_files = DOMAIN before.audio_files
       /\ \A i \in DOMAIN before.audio_files :
             IF i = k
             THEN /\ after.audio_files[i] =
                        [before.audio_files[i] EXCEPT !.error = after.audio_files[i].error]
                  /\ after.audio_files[i].error # NoError
             ELSE after.audio_files[i] = before.audio_files[i]
       /\ after.stats.total_files = before.stats.total_files
       /\ after.stats.downloaded_files = before.stats.downloaded_files
       /\ after.stats.processed_files = before.stats.processed_files
       /\ after.stats.failed_downloads = CountFailed(after.audio_files)

C27_LoadOrCreate ==
    [][/\ progress # <<>> =>
            /\ load_progress(progress, clock + 1) = progress
            /\ progress' # <<>>
            /\ progress'[1].session_id = progress[1].session_id
            /\ pc = "idle" =>
                  \/ progress' = progress
                  \/ \E n \in Names :
                        progress'[1] = add_champion(progress[1], ChampionId(n))
       /\ progress = <<>> =>
            /\ load_progress(progress, clock + 1) = <<NewProgress(clock + 1)>>
            /\ load_progress(load_progress(progress, clock + 1), clock + 2)
                  = <<NewProgress(clock + 1)>>
            /\ progress' # <<>> =>
                  /\ clock' = clock + 1
                  /\ \/ progress'[1] = NewProgress(clock')
                     \/ \E n \in Names :
                           progress'[1] = add_champion(NewProgress(clock'), ChampionId(n))
      ]_vars

\* A command has loaded the session of an earlier run, which holds an item
\* in a running stage.
C27_Witness ==
    /\ pc = "resume_inc"
    /\ clock = 1
    /\ progress[1].session_id = 1
    /\ progress[1].in_progress_champion # None
    /\ StatusOf(progress[1].champions, progress[1].in_progress_champion) \in RunningStages

\* C28: after reset no item has a checkpoint, and the next load_progress
\* gives a new session: no items, no item in progress, nothing completed
\* and nothing failed.
C28_ResetClears ==
    [][call'.exec = "reset" =>
         /\ \A c \in Ids : get_champion_checkpoint([ckpt |-> ckpt'], c) = <<>>
         /\ progress' = <<>>
         /\ LET p == load_progress(progress', clock' + 1)[1] IN
            /\ p.champions = <<>>
            /\ p.total_champions = 0
            /\ p.in_progress_champion = None
            /\ p.completed_champions = 0
            /\ p.failed_champions = <<>>
      ]_vars

\* reset has been called after a session had been created.
C28_Witness ==
    /\ call.exec = "reset"
    /\ progress = <<>>
    /\ clock >= 1

\* ---------------------------------------------------------------------------
\* C29  get_status_summary is a pure read: it leaves the session progress,
\* the checkpoints and the files as they were.  Of an active session it
\* reports completed = the number of items whose status is completed,
\* pending = the number whose status is pending, in_progress = the item in
\* progress, and a completion percentage of completed / total * 100, or 0
\* when the total is 0.
\* ---------------------------------------------------------------------------
C29_StatusSummary ==
    [][call'.exec = "get_status_summary" /\ progress # <<>> =>
          LET p == progress[1]
              done == {i \in DOMAIN p.champions : p.champions[i][2] = COMPLETED}
              waiting == {i \in DOMAIN p.champions : p.champions[i][2] = PENDING}
          IN  /\ progress' = progress
              /\ ckpt' = ckpt
              /\ raw' = raw
              /\ wav' = wav
              /\ returned'.completed = Cardinality(done)
              /\ returned'.pending = Cardinality(waiting)
              /\ returned'.in_progress = p.in_progress_champion
              /\ IF p.total_champions = 0
                 THEN returned'.completion_percentage.num = 0
                 ELSE /\ returned'.completion_percentage.num = Cardinality(done) * 100
                      /\ returned'.completion_percentage.den = p.total_champions]_vars

\* A summary was returned of a session with a counted total and a completed
\* item.
C29_Witness ==
    /\ call.exec = "get_status_summary"
    /\ returned.status = "active"
    /\ returned.completed >= 1
    /\ returned.total_champions >= 1
    /\ returned.completion_percentage.num >= 100

\* ---------------------------------------------------------------------------
\* C30  process_champion returns True only when the item was processed
\* successfully: whenever it returns True the persisted stage of the item is
\* completed; when the item failed, was left in a stage before completed, or
\* the run was cancelled, it returns False.
\* ---------------------------------------------------------------------------
C30_TrueOnlyWhenCompleted ==
    [][result' # result /\ result'.ret = "True" =>
          StageIn(ckpt', result'.champ) = COMPLETED]_vars

\* ---------------------------------------------------------------------------
\* C31  The counts of the summary partition the items: whenever no command
\* is running, completed + failed + pending + (1 if an item is in progress,
\* else 0) = total_champions.
\* ---------------------------------------------------------------------------
C31_SummaryPartition ==
    pc = "idle" /\ progress # <<>> =>
        LET s == get_status_summary(progress) IN
        s.completed + s.failed + s.pending
            + (IF s.in_progress # None THEN 1 ELSE 0) = s.total_champions

\* ---------------------------------------------------------------------------
\* C32  Duplicate target names: when the fetch batch of an item ends and no
\* fetch of any of its sub-items has failed (no sub-item carries an error),
\* then, whether or not several sub-items share a file name,
\* downloaded_files equals total_files and the item advances to processing.
\* ---------------------------------------------------------------------------
C32_AllFetchedAdvances ==
    [][/\ BatchEnds("downloading")
       /\ Len(ckpt[cur][1].audio_files) >= 1
       /\ \A i \in DOMAIN ckpt[cur][1].audio_files :
             ckpt[cur][1].audio_files[i].error = NoError
       => /\ ckpt'[cur][1].stats.downloaded_files = ckpt'[cur][1].stats.total_files
          /\ StageIn(ckpt', cur) = PROCESSING
      ]_vars

\* ---------------------------------------------------------------------------
\* C33  Fetched and failed are disjoint: in every persisted checkpoint no
\* sub-item is both marked downloaded and carrying an error, so that
\* downloaded_files + failed_downloads <= total_files.
\* ---------------------------------------------------------------------------
C33_FetchedFailedDisjoint ==
    \A c \in Ids :
        ckpt[c] # <<>> /\ ckpt[c] # <<Truncated>> =>
            /\ \A i \in DOMAIN ckpt[c][1].audio_files :
                  ~(/\ ckpt[c][1].audio_files[i].downloaded
                    /\ ckpt[c][1].audio_files[i].error # NoError)
            /\ ckpt[c][1].stats.downloaded_files + ckpt[c][1].stats.failed_downloads
                  <= ckpt[c][1].stats.total_files

\* ---------------------------------------------------------------------------
\* C34  The completed counter does not drift: after any sequence of
\* StateManager calls the counter completed_champions of the session equals
\* the number of items whose status is completed.
\* ---------------------------------------------------------------------------
C34_CompletedCounter ==
    progress # <<>> =>
        progress[1].completed_champions =
            Cardinality({i \in DOMAIN progress[1].champions :
                            progress[1].champions[i][2] = COMPLETED})

\* ---------------------------------------------------------------------------
\* C35  The total matches the tracked items: after any sequence of
\* add_champion, create_champion_checkpoint and save_checkpoint calls on a
\* loaded session, total_champions equals the number of entries of the
\* status map of the session.
\* ---------------------------------------------------------------------------
C35_TotalMatchesMap ==
    progress # <<>> =>
        progress[1].total_champions = Len(progress[1].champions)

\* ---------------------------------------------------------------------------
\* C36  Failed iff error: in every persisted checkpoint the stage of the item
\* is failed if and only if its item-level error text is set.
\* ---------------------------------------------------------------------------
C36_FailedIffError ==
    \A c \in Ids :
        ckpt[c] # <<>> /\ ckpt[c] # <<Truncated>> =>
            (ckpt[c][1].stage = FAILED <=> ckpt[c][1].error # NoError)

\* Two items have gone through the orchestrator: one is failed with its
\* error text, the other is completed without one.
C36_Witness ==
    \E c, d \in Ids :
        /\ StageIn(ckpt, c) = FAILED
        /\ ckpt[c][1].error # NoError
        /\ StageIn(ckpt, d) = COMPLETED
        /\ ckpt[d][1].error = NoError

\* ---------------------------------------------------------------------------
\* C37  Discovery is all-or-nothing: in every persisted checkpoint whose
\* stage is downloading, processing, concatenating or completed the list of
\* sub-items is not empty and total_files >= 1; in every checkpoint whose
\* stage is pending or scraping the list is empty.
\* ---------------------------------------------------------------------------
C37_DiscoveryAllOrNothing ==
    \A c \in Ids :
        ckpt[c] # <<>> /\ ckpt[c] # <<Truncated>> =>
            /\ ckpt[c][1].stage \in {DOWNLOADING, PROCESSING, CONCATENATING, COMPLETED}
                  => /\ Len(ckpt[c][1].audio_files) >= 1
                     /\ ckpt[c][1].stats.total_files >= 1
            /\ ckpt[c][1].stage \in {PENDING, SCRAPING}
                  => ckpt[c][1].audio_files = <<>>

\* One item is left in stage scraping by a kill while another has its
\* discovered files and is completed.
C37_Witness ==
    \E c, d \in Ids :
        /\ StageIn(ckpt, c) = SCRAPING
        /\ StageIn(ckpt, d) = COMPLETED
        /\ ckpt[d][1].stats.total_files >= 1

\* ---------------------------------------------------------------------------
\* C38  Transformed implies fetched: in every persisted checkpoint every
\* sub-item with processed = true also has downloaded = true, and
\* processed_files <= downloaded_files <= total_files.
\* ---------------------------------------------------------------------------
C38_TransformedImpliesFetched ==
    \A c \in Ids :
        ckpt[c] # <<>> /\ ckpt[c] # <<Truncated>> =>
            /\ \A i \in DOMAIN ckpt[c][1].audio_files :
                  ckpt[c][1].audio_files[i].processed
                      => ckpt[c][1].audio_files[i].downloaded
            /\ ckpt[c][1].stats.processed_files <= ckpt[c][1].stats.downloaded_files
            /\ ckpt[c][1].stats.downloaded_files <= ckpt[c][1].stats.total_files

\* An item has a transformed sub-item, and a sub-item that was not fetched
\* and has been passed over by the transform batch.
C38_Witness ==
    \E c \in Ids :
        /\ ckpt[c] # <<>>
        /\ ckpt[c] # <<Truncated>>
        /\ ckpt[c][1].stage \in {CONCATENATING, COMPLETED}
        /\ \E i, j \in DOMAIN ckpt[c][1].audio_files :
              /\ ckpt[c][1].audio_files[i].processed
              /\ ~ckpt[c][1].audio_files[j].downloaded
              /\ ~ckpt[c][1].audio_files[j].processed
====
